---- MODULE Spec2Model ----
(***************************************************************************)
(* Model of the ZZMI support module (src/games/zzz/zzmi.rs): the package   *)
(* sync pipeline (ensure_xxmi_libs, ensure_zzmi_package, ensure_all) and   *)
(* the game-directory overlay (prepare_mods, cleanup_mods); and of the      *)
(* DXVK version index lookups (src/components/dxvk.rs).                     *)
(*                                                                         *)
(* The file system is modelled by what the code can observe of it: the two *)
(* install directories (entries + version.json), the cache directory with  *)
(* the downloaded archives, the default and custom mods folders and the    *)
(* reserved names of the game directory.                                   *)
(***************************************************************************)
EXTENDS Integers, Sequences, FiniteSets, TLC

\* ------------------------------------------------------------------ bounds
\* Release tags are 1..MaxTag.
MaxTag == 3
\* The feed of a package kind starts at tag 1 and publishes up to MaxRelease.
MaxRelease == 2
\* Calls of the ensure_* functions in one behaviour of the sync engine.
MaxCalls == 2
\* Calls of prepare_mods in one behaviour of the overlay manager.
MaxPrepares == 1
\* Groups in the DXVK components index, and versions in the whole index.
MaxGroups == 2
MaxVersions == 2

\* ------------------------------------------------------------- vocabulary
Kinds == {"libs", "zzmi"}
Tags  == 1..MaxTag
Procs == {1, 2}

\* Content of version.json: 0 = no file, -1 = a file that is not the JSON
\* document save_version writes (truncated write), t > 0 = {"version": t}.
NoStamp  == 0
BadStamp == 0 - 1

\* A path below an install directory: <<"", name>> is directly in it,
\* <<"sub", name>> is inside the single top-level folder of the archive.
LibNames  == {"d3d11.dll", "d3dcompiler_47.dll", "nvapi64.dll"}
ZzmiNames == {"d3dx.ini", "Core", "ShaderFixes"}
Paths     == {"", "sub"} \X (LibNames \cup ZzmiNames)

VARIABLES
    remoteTag,   \* [Kinds -> Tags]: tag_name the release feed currently serves
    inst,        \* [Kinds -> [exists, files, stamp]]: the install directories
    cacheDir,    \* BOOLEAN: <base>/cache exists
    zips,        \* [Kinds \X Tags -> {"none","bad","full"}]: cached archives
    defaultMods, \* BOOLEAN: <base>/Mods exists
    customMods,  \* "absent" | "dir": a mods_folder outside the game directory
    gameDir,     \* [GameNames -> entry]: the reserved names in the game dir
    ncalls,      \* number of calls of the public functions made so far
    pc,          \* [Procs -> step the call is about to execute]
    op,          \* [Procs -> which public function is running]
    cur,         \* [Procs -> package kind being synced]
    modsArg,     \* [Procs -> mods_folder argument of prepare_mods]
    installed,   \* [Procs -> local installed_version (0 = None)]
    latest,      \* [Procs -> local latest_version (0 = not fetched)]
    feed,        \* [Procs -> last release document received]
    result,      \* [Procs -> "none" | "ok" | "err" | "crash"]
    failed,      \* [Procs -> step at which the call stopped, "" if none]
    hist,        \* [Procs -> what the call has done so far]
    pre,         \* [Procs -> snapshot of the file system when the call began]
    groups,      \* the DXVK components index: what get_groups parses
    lookup       \* the last call into the version index and what it returned

fsvars   == <<inst, cacheDir, zips, defaultMods, customMods, gameDir>>
procvars == <<pc, ncalls, op, cur, modsArg, installed, latest, feed, result, failed, hist, pre>>
ixvars   == <<groups, lookup>>
vars     == <<remoteTag, inst, cacheDir, zips, defaultMods, customMods, gameDir,
              pc, ncalls, op, cur, modsArg, installed, latest, feed, result, failed, hist, pre,
              groups, lookup>>

\* ------------------------------------------------- release archives (input)
\* The archive a feed serves for a tag, as the ordered list of its entries
\* (extract_zip writes them in index order).  Three shapes per kind: the
\* complete package at top level, a package nested in one folder with an
\* optional part missing, and a package without its required artifact.
LibsArchive(t) ==
    CASE t % 3 = 1 -> << <<"", "d3d11.dll">>, <<"", "d3dcompiler_47.dll">>, <<"", "nvapi64.dll">> >>
      [] t % 3 = 2 -> << <<"sub", "d3d11.dll">>, <<"sub", "nvapi64.dll">> >>
      [] OTHER     -> << <<"", "d3dcompiler_47.dll">> >>

ZzmiArchive(t) ==
    CASE t % 3 = 1 -> << <<"", "d3dx.ini">>, <<"", "Core">>, <<"", "ShaderFixes">> >>
      [] t % 3 = 2 -> << <<"sub", "d3dx.ini">>, <<"sub", "Core">>, <<"", "ShaderFixes">> >>
      [] OTHER     -> << <<"", "Core">> >>

Archive(k, t) == IF k = "libs" THEN LibsArchive(t) ELSE ZzmiArchive(t)

Prefix(seq, n) == {seq[i] : i \in 1..n}
Entries(k, t)  == Prefix(Archive(k, t), Len(Archive(k, t)))

\* ------------------------------------------------------------ directories
Gone  == [exists |-> FALSE, files |-> {}, stamp |-> NoStamp]

\* (variant: both package kinds are installed into the same directory)
GetDirShared(k) == "libs"

\* get_libs_dir / get_zzmi_dir: the install directory of a package kind.
GetDir(k) == k

\* format!("xxmi-libs-{}.zip") / format!("zzmi-package-{}.zip"): the cache
\* slot of an archive is named from the package kind and the tag.
ZipPath(k, t) == <<k, t>>

\* ---------------------------------------------------------- pure helpers
\* read_version: None (0) when version.json is missing, unreadable, not JSON
\* or has no string "version"; otherwise the tag it holds.
ReadVersion(d) ==
    IF ~d.exists \/ d.stamp = NoStamp THEN 0
    ELSE IF d.stamp = BadStamp THEN 0
    ELSE d.stamp

\* save_version: version.json becomes the document {"version": tag}.
SaveVersion(d, t) == [d EXCEPT !.stamp = t]

\* A release document: got = "neterr" when the request or the JSON decoding
\* failed; tag = 0 when tag_name is absent; assets = "none" (no array),
\* "nomatch" (no asset named <prefix>*.zip with a browser_download_url) or
\* "match".
NoDoc  == [got |-> "unset",  tag |-> 0, assets |-> "none"]
NetErr == [got |-> "neterr", tag |-> 0, assets |-> "none"]
Docs(t) == {NetErr, [got |-> "json", tag |-> 0, assets |-> "match"]} \cup
           [got : {"json"}, tag : {t}, assets : {"none", "nomatch", "match"}]

\* (variant: a release without a matching asset is not rejected)
FetchGithubReleaseAnyAsset(doc) ==
    IF doc.got # "json" THEN 0
    ELSE IF doc.tag = 0 THEN 0
    ELSE IF doc.assets = "none" THEN 0
    ELSE doc.tag

\* fetch_github_release: Err (0) or Ok(tag_name).
FetchGithubRelease(doc) ==
    IF doc.got # "json" THEN 0
    ELSE IF doc.tag = 0 THEN 0
    ELSE IF doc.assets = "none" THEN 0
    ELSE IF doc.assets # "match" THEN 0
    ELSE doc.tag

\* (variant: the version comparison is lost and every call re-downloads)
NeedsDownloadAlways(inst_v, latest_v) == TRUE

\* needs_download = installed_version != Some(latest_version)
NeedsDownload(inst_v, latest_v) == inst_v # latest_v

\* (variant: the old install directory is not removed before extraction)
StepAfterNoRemove(step) ==
    CASE step = "mkcache"  -> "download"
      [] step = "download" -> "extract"
      [] step = "extract"  -> "stamp"
      [] step = "stamp"    -> "rmzip"
      [] OTHER             -> "done"

\* (variant: the old install directory is removed before the download)
StepAfterRemoveFirst(step) ==
    CASE step = "mkcache"  -> "remove"
      [] step = "remove"   -> "download"
      [] step = "download" -> "extract"
      [] step = "extract"  -> "stamp"
      [] step = "stamp"    -> "rmzip"
      [] OTHER             -> "done"

\* The order of the steps inside `if needs_download { ... }`.
StepAfter(step) ==
    CASE step = "mkcache"  -> "download"
      [] step = "download" -> "remove"
      [] step = "remove"   -> "extract"
      [] step = "extract"  -> "stamp"
      [] step = "stamp"    -> "rmzip"
      [] OTHER             -> "done"

\* find_file_recursive: the direct child first, then the subdirectories.
NotFound == <<>>
FindFileRecursive(d, name) ==
    IF ~d.exists THEN NotFound
    ELSE IF <<"", name>> \in d.files THEN <<"", name>>
    ELSE IF <<"sub", name>> \in d.files THEN <<"sub", name>>
    ELSE NotFound

\* ------------------------------------------------------- call bookkeeping
\* hist: the package kinds the call has found current, downloaded, removed,
\* extracted and stamped, the tag each feed returned (0 = none yet) and the
\* operation the operating system refused in the overlay ("" = none).
NoHist == [downloaded |-> {}, removed |-> {}, extracted |-> {}, stamped |-> {}, current |-> {},
           tag |-> [k \in Kinds |-> 0], inj |-> ""]

\* pre: the file system when the public function was entered, the sync
\* directories when the running ensure_* function was entered (sync), and,
\* for cleanup_mods, the call that came before it (prev): which function,
\* its result, its mods_folder and whether it found the game directory empty.
SyncDirs == [inst |-> inst, cacheDir |-> cacheDir, zips |-> zips]

NoPrev == [op |-> "none", result |-> "none", modsArg |-> "default", empty |-> FALSE]

Last(p) == [op |-> op[p], result |-> result[p], modsArg |-> modsArg[p],
            empty |-> \A n \in DOMAIN pre[p].gameDir : pre[p].gameDir[n].kind = "absent"]

Snapshot(prev) ==
    [inst |-> inst, cacheDir |-> cacheDir, zips |-> zips,
     defaultMods |-> defaultMods, customMods |-> customMods, gameDir |-> gameDir,
     sync |-> SyncDirs, prev |-> prev]

Idle == \A q \in Procs : pc[q] = "idle"

\* A public function is entered: locals are fresh, the file system is as found.
Enter(p, o, m, first, prev) ==
    /\ pc'        = [pc EXCEPT ![p] = first]
    /\ op'        = [op EXCEPT ![p] = o]
    /\ cur'       = [cur EXCEPT ![p] = IF o = "zzmi" THEN "zzmi" ELSE "libs"]
    /\ modsArg'   = [modsArg EXCEPT ![p] = m]
    /\ installed' = [installed EXCEPT ![p] = 0]
    /\ latest'    = [latest EXCEPT ![p] = 0]
    /\ feed'      = [feed EXCEPT ![p] = NoDoc]
    /\ result'    = [result EXCEPT ![p] = "none"]
    /\ failed'    = [failed EXCEPT ![p] = ""]
    /\ hist'      = [hist EXCEPT ![p] = NoHist]
    /\ pre'       = [pre EXCEPT ![p] = Snapshot(prev)]

\* (variant: prepare_mods drops the result of ensure_all and goes on)
StopIgnoredByPrepare(p, how, step) ==
    IF op[p] = "prepare" /\ pc[p] # "overlay"
    THEN /\ pc' = [pc EXCEPT ![p] = "overlay"]
         /\ UNCHANGED <<result, failed, cur>>
    ELSE /\ pc'     = [pc EXCEPT ![p] = "idle"]
         /\ result' = [result EXCEPT ![p] = how]
         /\ failed' = [failed EXCEPT ![p] = step]
         /\ UNCHANGED cur

\* The call ends at `step`: `?` returned the error ("err"; a process dying in
\* the middle of that step leaves the same file system), or the process was
\* terminated before the step ("crash").
Stop(p, how, step) ==
    /\ pc'     = [pc EXCEPT ![p] = "idle"]
    /\ result' = [result EXCEPT ![p] = how]
    /\ failed' = [failed EXCEPT ![p] = step]
    /\ UNCHANGED cur

\* ensure_xxmi_libs / ensure_zzmi_package returned Ok: a direct call is over,
\* ensure_all goes on with the ZZMI package and then the default Mods folder.
KindDone(p) ==
    IF op[p] \in {"libs", "zzmi"}
    THEN /\ pc'     = [pc EXCEPT ![p] = "idle"]
         /\ result' = [result EXCEPT ![p] = "ok"]
         /\ UNCHANGED <<cur, failed>>
    ELSE IF cur[p] = "libs"
    THEN /\ pc'  = [pc EXCEPT ![p] = "read"]
         /\ cur' = [cur EXCEPT ![p] = "zzmi"]
         /\ UNCHANGED <<result, failed>>
    ELSE /\ pc' = [pc EXCEPT ![p] = "defmods"]
         /\ UNCHANGED <<cur, result, failed>>

Advance(p, step) ==
    IF StepAfter(step) = "done"
    THEN KindDone(p)
    ELSE /\ pc' = [pc EXCEPT ![p] = StepAfter(step)]
         /\ UNCHANGED <<cur, result, failed>>

\* (variant: the result of extract_zip is dropped instead of propagated)
ReturnErrExceptExtract(p, step) ==
    IF step = "extract" THEN Advance(p, step) ELSE Stop(p, "err", step)

\* (variant: ensure_all goes on to the ZZMI package when the libs sync failed)
ReturnErrGoOn(p, step) ==
    IF op[p] \in {"all", "prepare"} /\ cur[p] = "libs"
    THEN /\ pc'  = [pc EXCEPT ![p] = "read"]
         /\ cur' = [cur EXCEPT ![p] = "zzmi"]
         /\ UNCHANGED <<result, failed>>
    ELSE Stop(p, "err", step)

\* The `?` after a fallible step: the error is returned to the caller.
ReturnErr(p, step) == Stop(p, "err", step)

Did(p, what) == hist' = [hist EXCEPT ![p][what] = @ \cup {cur[p]}]

\* ------------------------------------------------- the package sync engine
\* (variant: a call waits until no other process is inside an ensure call)
EnsureXxmiLibsLocked(p) ==
    /\ Idle
    /\ ncalls < MaxCalls
    /\ ncalls' = ncalls + 1
    /\ Enter(p, "libs", "default", "read", NoPrev)
    /\ UNCHANGED <<ixvars, remoteTag, fsvars>>

\* pub fn ensure_xxmi_libs()
EnsureXxmiLibs(p) ==
    /\ pc[p] = "idle"
    /\ ncalls < MaxCalls
    /\ ncalls' = ncalls + 1
    /\ Enter(p, "libs", "default", "read", NoPrev)
    /\ UNCHANGED <<ixvars, remoteTag, fsvars>>

\* pub fn ensure_zzmi_package()
EnsureZzmiPackage(p) ==
    /\ pc[p] = "idle"
    /\ ncalls < MaxCalls
    /\ ncalls' = ncalls + 1
    /\ Enter(p, "zzmi", "default", "read", NoPrev)
    /\ UNCHANGED <<ixvars, remoteTag, fsvars>>

\* pub fn ensure_all()
EnsureAll(p) ==
    /\ pc[p] = "idle"
    /\ ncalls < MaxCalls
    /\ ncalls' = ncalls + 1
    /\ Enter(p, "all", "default", "read", NoPrev)
    /\ UNCHANGED <<ixvars, remoteTag, fsvars>>

\* let installed_version = read_version(&dir);
ReadStep(p) ==
    /\ pc[p] = "read"
    /\ installed' = [installed EXCEPT ![p] = ReadVersion(inst[GetDir(cur[p])])]
    /\ latest'    = [latest EXCEPT ![p] = 0]
    /\ pc'        = [pc EXCEPT ![p] = "fetch"]
    /\ pre'       = [pre EXCEPT ![p].sync = SyncDirs]
    /\ UNCHANGED <<ixvars, remoteTag, fsvars, ncalls, op, cur, modsArg, feed, result, failed, hist>>

\* let (latest_version, download_url) = fetch_github_release(..)?;
\* followed by the needs_download test.
FetchStep(p) ==
    /\ pc[p] = "fetch"
    /\ \E doc \in Docs(remoteTag[cur[p]]) :
         /\ feed' = [feed EXCEPT ![p] = doc]
         /\ IF FetchGithubRelease(doc) = 0
            THEN /\ ReturnErr(p, "fetch")
                 /\ UNCHANGED <<latest, hist>>
            ELSE /\ latest' = [latest EXCEPT ![p] = FetchGithubRelease(doc)]
                 /\ IF NeedsDownload(installed[p], FetchGithubRelease(doc))
                    THEN /\ pc' = [pc EXCEPT ![p] = "mkcache"]
                         /\ hist' = [hist EXCEPT ![p].tag[cur[p]] = FetchGithubRelease(doc)]
                         /\ UNCHANGED <<cur, result, failed>>
                    ELSE /\ KindDone(p)
                         /\ hist' = [hist EXCEPT ![p].tag[cur[p]] = FetchGithubRelease(doc),
                                                  ![p].current = @ \cup {cur[p]}]
    /\ UNCHANGED <<ixvars, remoteTag, fsvars, ncalls, op, modsArg, installed, pre>>

\* fs::create_dir_all(&cache_dir)?;
MkCacheStep(p) ==
    /\ pc[p] = "mkcache"
    /\ \/ /\ cacheDir' = TRUE
          /\ Advance(p, "mkcache")
       \/ /\ ~cacheDir
          /\ UNCHANGED cacheDir
          /\ ReturnErr(p, "mkcache")
    /\ UNCHANGED <<ixvars, remoteTag, inst, zips, defaultMods, customMods, gameDir,
                   ncalls, op, modsArg, installed, latest, feed, hist, pre>>

\* download_file(&download_url, &zip_path)?;
\* The request can fail before the file is created; File::create truncates
\* the cache slot; the body is stored as received, a zip archive or not.
DownloadStep(p) ==
    /\ pc[p] = "download"
    /\ LET z == ZipPath(cur[p], latest[p]) IN
       \/ /\ ReturnErr(p, "download")
          /\ UNCHANGED <<cacheDir, zips, hist>>
       \/ /\ ReturnErr(p, "download")
          /\ cacheDir' = TRUE
          /\ zips' = [zips EXCEPT ![z] = "bad"]
          /\ UNCHANGED hist
       \/ /\ \E body \in {"full", "bad"} : zips' = [zips EXCEPT ![z] = body]
          /\ cacheDir' = TRUE
          /\ Did(p, "downloaded")
          /\ Advance(p, "download")
    /\ UNCHANGED <<ixvars, remoteTag, inst, defaultMods, customMods, gameDir,
                   ncalls, op, modsArg, installed, latest, feed, pre>>

\* if dir.exists() { fs::remove_dir_all(&dir)?; }
\* A failing remove_dir_all has removed entries in no fixed order: none, the
\* extracted entries but not version.json, or version.json alone.
RemoveStep(p) ==
    /\ pc[p] = "remove"
    /\ LET d == GetDir(cur[p]) IN
       IF ~inst[d].exists
       THEN /\ Advance(p, "remove")
            /\ UNCHANGED <<inst, hist>>
       ELSE \/ /\ inst' = [inst EXCEPT ![d] = Gone]
               /\ Did(p, "removed")
               /\ Advance(p, "remove")
            \/ /\ \E left \in {inst[d].files, {}}, st \in {inst[d].stamp, NoStamp} :
                    inst' = [inst EXCEPT ![d] = [exists |-> TRUE, files |-> left, stamp |-> st]]
               /\ ReturnErr(p, "remove")
               /\ UNCHANGED hist
    /\ UNCHANGED <<ixvars, remoteTag, cacheDir, zips, defaultMods, customMods, gameDir,
                   ncalls, op, modsArg, installed, latest, feed, pre>>

\* extract_zip(&zip_path, &dir)?;
\* File::open / ZipArchive::new fail on a missing or malformed archive before
\* anything is created; otherwise the directory is created and the entries
\* are written in order, a failure leaving the first n of them.
ExtractStep(p) ==
    /\ pc[p] = "extract"
    /\ LET d == GetDir(cur[p])
           a == Archive(cur[p], latest[p])
       IN
       IF zips[ZipPath(cur[p], latest[p])] # "full"
       THEN /\ ReturnErr(p, "extract")
            /\ UNCHANGED <<inst, hist>>
       ELSE \/ /\ ReturnErr(p, "extract")
               /\ UNCHANGED <<inst, hist>>
            \/ /\ \E n \in 0..(Len(a) - 1) :
                    inst' = [inst EXCEPT ![d] = [exists |-> TRUE,
                                                 files  |-> inst[d].files \cup Prefix(a, n),
                                                 stamp  |-> inst[d].stamp]]
               /\ ReturnErr(p, "extract")
               /\ UNCHANGED hist
            \/ /\ inst' = [inst EXCEPT ![d] = [exists |-> TRUE,
                                               files  |-> inst[d].files \cup Prefix(a, Len(a)),
                                               stamp  |-> inst[d].stamp]]
               /\ Did(p, "extracted")
               /\ Advance(p, "extract")
    /\ UNCHANGED <<ixvars, remoteTag, cacheDir, zips, defaultMods, customMods, gameDir,
                   ncalls, op, modsArg, installed, latest, feed, pre>>

\* save_version(&dir, &latest_version)?;
\* fs::write fails outright when the directory is missing; a failing write
\* leaves version.json as it was or truncated.
StampStep(p) ==
    /\ pc[p] = "stamp"
    /\ LET d == GetDir(cur[p]) IN
       IF ~inst[d].exists
       THEN /\ ReturnErr(p, "stamp")
            /\ UNCHANGED <<inst, hist>>
       ELSE \/ /\ inst' = [inst EXCEPT ![d] = SaveVersion(inst[d], latest[p])]
               /\ Did(p, "stamped")
               /\ Advance(p, "stamp")
            \/ /\ ReturnErr(p, "stamp")
               /\ UNCHANGED <<inst, hist>>
            \/ /\ inst' = [inst EXCEPT ![d] = SaveVersion(inst[d], BadStamp)]
               /\ ReturnErr(p, "stamp")
               /\ UNCHANGED hist
    /\ UNCHANGED <<ixvars, remoteTag, cacheDir, zips, defaultMods, customMods, gameDir,
                   ncalls, op, modsArg, installed, latest, feed, pre>>

\* fs::remove_file(&zip_path)?;
RmZipStep(p) ==
    /\ pc[p] = "rmzip"
    /\ LET z == ZipPath(cur[p], latest[p]) IN
       IF zips[z] = "none"
       THEN /\ ReturnErr(p, "rmzip")
            /\ UNCHANGED zips
       ELSE \/ /\ zips' = [zips EXCEPT ![z] = "none"]
               /\ Advance(p, "rmzip")
            \/ /\ ReturnErr(p, "rmzip")
               /\ UNCHANGED zips
    /\ UNCHANGED <<ixvars, remoteTag, inst, cacheDir, defaultMods, customMods, gameDir,
                   ncalls, op, modsArg, installed, latest, feed, hist, pre>>

\* ensure_all: if !default_mods.exists() { fs::create_dir_all(&default_mods)?; }
DefaultModsStep(p) ==
    /\ pc[p] = "defmods"
    /\ \/ /\ defaultMods' = TRUE
          /\ IF op[p] = "all"
             THEN /\ pc'     = [pc EXCEPT ![p] = "idle"]
                  /\ result' = [result EXCEPT ![p] = "ok"]
                  /\ UNCHANGED <<cur, failed>>
             ELSE /\ pc' = [pc EXCEPT ![p] = "overlay"]
                  /\ UNCHANGED <<cur, result, failed>>
       \/ /\ ~defaultMods
          /\ UNCHANGED defaultMods
          /\ ReturnErr(p, "defmods")
    /\ UNCHANGED <<ixvars, remoteTag, inst, cacheDir, zips, customMods, gameDir,
                   ncalls, op, modsArg, installed, latest, feed, hist, pre>>

\* The process is terminated between two steps of a running call.
Crash(p) ==
    /\ pc[p] # "idle"
    /\ Stop(p, "crash", pc[p])
    /\ UNCHANGED <<ixvars, remoteTag, fsvars, ncalls, op, modsArg, installed, latest, feed, hist, pre>>

\* The upstream repository publishes its next release.
RemoteRelease(k) ==
    /\ remoteTag[k] < MaxRelease
    /\ remoteTag' = [remoteTag EXCEPT ![k] = @ + 1]
    /\ UNCHANGED <<ixvars, fsvars, procvars>>

\* ------------------------------------------------------ the game directory
GameFiles   == {"dxgi.dll", "d3dcompiler_47.dll", "nvapi64.dll", "d3dx.ini", "d3d11.dll"}
GameFolders == {"Core", "ShaderFixes", "Mods"}
\* "UserMods" stands for a mods_folder the user keeps inside the game directory.
GameNames   == GameFiles \cup GameFolders \cup {"UserMods"}

\* mods_folder of prepare_mods: the launcher's default folder, a folder
\* elsewhere, <game_dir>/Mods itself, or another folder inside the game dir.
ModsArgs == {"default", "custom", "gameMods", "gameSub"}

Absent  == [kind |-> "absent", data |-> <<>>]
File(c) == [kind |-> "file", data |-> <<c>>]
Dir(c)  == [kind |-> "dir",  data |-> <<c>>]
Link(t) == [kind |-> "link", data |-> t]

EmptyGame == [n \in GameNames |-> Absent]

\* Path::is_symlink
IsSymlink(e) == e.kind = "link"

\* Path::exists / Path::is_dir follow symbolic links: a link counts when its
\* target is there.  st is the file system the path is looked up in.
TargetLive(t, st) ==
    CASE t[1] = "pkg"  -> <<t[2], t[3]>> \in st.zzmi.files
      [] t[1] = "mods" -> CASE t[2] = "default"  -> st.defmods
                            [] t[2] = "custom"   -> st.custom = "dir"
                            [] t[2] = "gameSub"  -> st.game["UserMods"].kind = "dir"
                            [] OTHER             -> FALSE
      [] OTHER         -> TRUE

Exists(e, st) == e.kind \in {"file", "dir"} \/ (IsSymlink(e) /\ TargetLive(e.data, st))
IsDir(e, st)  == e.kind = "dir" \/ (IsSymlink(e) /\ TargetLive(e.data, st))

\* mods_folder.exists()
ModsExists(m, st) ==
    CASE m = "default"  -> st.defmods
      [] m = "custom"   -> st.custom = "dir"
      [] m = "gameMods" -> Exists(st.game["Mods"], st)
      [] OTHER          -> Exists(st.game["UserMods"], st)

\* The file system as the overlay code sees and changes it, with the error
\* (if any) that ended the call.
Ctx == [game |-> gameDir, custom |-> customMods, defmods |-> defaultMods,
        zzmi |-> inst[GetDir("zzmi")], err |-> FALSE, at |-> ""]

\* (variant: the error of a step is noted but the call goes on)
ErrContinue(st, pt) == [st EXCEPT !.at = pt]

\* `?` on a failing operation: the call returns that error.
Err(st, pt) == [st EXCEPT !.err = TRUE, !.at = pt]

\* (variant: a missing required artifact is skipped like an optional one)
RequireLenient(st, pt, found) == st

\* if let Some(src) = find_file_recursive(..) { .. } else { bail!(..) }  and
\* find_file_recursive(..).ok_or_else(..)?  : a required artifact.
Require(st, pt, found) ==
    IF st.err THEN st
    ELSE IF found = NotFound THEN Err(st, pt)
    ELSE st

\* (variant: an artifact that was not found is an error, as for d3d11.dll)
CopyRequired(st, f, pt, name, found) ==
    IF st.err THEN st
    ELSE IF found = NotFound THEN Err(st, pt)
    ELSE IF f = pt \/ st.game[name].kind = "dir" THEN Err(st, pt)
    ELSE [st EXCEPT !.game[name] = File("pkg")]

\* fs::copy(&src, &dst)? when the artifact was found; f is the operation the
\* operating system refuses in this call ("" = none).
Copy(st, f, pt, name, found) ==
    IF st.err \/ found = NotFound THEN st
    ELSE IF f = pt \/ st.game[name].kind = "dir" THEN Err(st, pt)
    ELSE [st EXCEPT !.game[name] = File("pkg")]

\* "Remove existing symlink/folder if present":
\* if dst.exists() || dst.is_symlink() {
\*     if dst.is_symlink() { remove_file } else if dst.is_dir() { remove_dir_all } }
RemoveExisting(st, f, pt, name) ==
    IF st.err THEN st
    ELSE IF Exists(st.game[name], st) \/ IsSymlink(st.game[name])
    THEN IF IsSymlink(st.game[name])
         THEN IF f = pt THEN Err(st, pt) ELSE [st EXCEPT !.game[name] = Absent]
         ELSE IF IsDir(st.game[name], st)
         THEN IF f = pt THEN Err(st, pt) ELSE [st EXCEPT !.game[name] = Absent]
         ELSE st
    ELSE st

\* std::os::unix::fs::symlink(src, dst)?  fails when dst is occupied.
Symlink(st, f, pt, name, target) ==
    IF st.err THEN st
    ELSE IF f = pt \/ st.game[name].kind # "absent" THEN Err(st, pt)
    ELSE [st EXCEPT !.game[name] = Link(target)]

\* One round of `for folder in &["Core", "ShaderFixes"]`.
LinkFolder(st, frm, fln, ptrm, ptln, folder, cdir) ==
    LET r == RemoveExisting(st, frm, ptrm, folder) IN
    IF r.err THEN r
    ELSE IF <<cdir, folder>> \in r.zzmi.files
    THEN Symlink(r, fln, ptln, folder, <<"pkg", cdir, folder>>)
    ELSE r

\* if !mods_folder.exists() { fs::create_dir_all(mods_folder)?; }
MakeModsFolder(st, f, m) ==
    IF st.err \/ ModsExists(m, st) THEN st
    ELSE IF f = "mk:mods" THEN Err(st, "mk:mods")
    ELSE CASE m = "default"  -> [st EXCEPT !.defmods = TRUE]
           [] m = "custom"   -> [st EXCEPT !.custom = "dir"]
           [] m = "gameMods" -> [st EXCEPT !.game["Mods"] = Dir("new")]
           [] OTHER          -> [st EXCEPT !.game["UserMods"] = Dir("new")]

PreparePoints == {"", "cp:dxgi.dll", "cp:d3dcompiler_47.dll", "cp:nvapi64.dll", "cp:d3dx.ini",
                  "rm:Core", "ln:Core", "rm:ShaderFixes", "ln:ShaderFixes",
                  "rm:Mods", "mk:mods", "ln:Mods"}

\* The body of prepare_mods after ensure_all()? (lines 315-402).
PrepareOverlay(st, libs, f, m) ==
    LET d3d11 == FindFileRecursive(libs, "d3d11.dll")
        s1 == Copy(Require(st, "find:d3d11.dll", d3d11), f, "cp:dxgi.dll", "dxgi.dll", d3d11)
        s2 == Copy(s1, f, "cp:d3dcompiler_47.dll", "d3dcompiler_47.dll",
                   FindFileRecursive(libs, "d3dcompiler_47.dll"))
        s3 == Copy(s2, f, "cp:nvapi64.dll", "nvapi64.dll", FindFileRecursive(libs, "nvapi64.dll"))
        ini  == FindFileRecursive(st.zzmi, "d3dx.ini")
        cdir == IF ini = NotFound THEN "" ELSE ini[1]
        s4 == Copy(Require(s3, "find:d3dx.ini", ini), f, "cp:d3dx.ini", "d3dx.ini", ini)
        s5 == LinkFolder(s4, f, f, "rm:Core", "ln:Core", "Core", cdir)
        s6 == LinkFolder(s5, f, f, "rm:ShaderFixes", "ln:ShaderFixes", "ShaderFixes", cdir)
        s7 == RemoveExisting(s6, f, "rm:Mods", "Mods")
        s8 == MakeModsFolder(s7, f, m)
    IN  Symlink(s8, f, "ln:Mods", "Mods", <<"mods", m>>)

\* pub fn prepare_mods(game_dir, mods_folder): starts with ensure_all()?
PrepareMods(p) ==
    /\ pc[p] = "idle"
    /\ ncalls < MaxPrepares
    /\ ncalls' = ncalls + 1
    /\ Enter(p, "prepare", "default", "read", NoPrev)
    /\ UNCHANGED <<ixvars, remoteTag, fsvars>>

\* mods_folder is not looked at before this point, so the argument is drawn
\* here; f is the operation that fails in this call.
OverlayStep(p) ==
    /\ pc[p] = "overlay"
    /\ \E f \in PreparePoints, m \in ModsArgs :
         LET r == PrepareOverlay(Ctx, inst[GetDir("libs")], f, m) IN
         /\ modsArg'     = [modsArg EXCEPT ![p] = m]
         /\ hist'        = [hist EXCEPT ![p].inj = IF r.at = f THEN f ELSE ""]
         /\ gameDir'     = r.game
         /\ customMods'  = r.custom
         /\ defaultMods' = r.defmods
         /\ pc'     = [pc EXCEPT ![p] = "idle"]
         /\ result' = [result EXCEPT ![p] = IF r.err THEN "err" ELSE "ok"]
         /\ failed' = [failed EXCEPT ![p] = r.at]
    /\ UNCHANGED <<ixvars, remoteTag, inst, cacheDir, zips,
                   ncalls, op, cur, installed, latest, feed, pre>>

\* (variant: d3dx.ini is missing from the list of files to remove)
CleanupFilesNoIni == <<"dxgi.dll", "d3dcompiler_47.dll", "nvapi64.dll", "d3d11.dll">>

\* cleanup_mods: "Remove DLLs" then "Remove symlinks", each removal with `?`.
CleanupFiles   == <<"dxgi.dll", "d3dcompiler_47.dll", "nvapi64.dll", "d3dx.ini", "d3d11.dll">>
CleanupFolders == <<"Core", "ShaderFixes", "Mods">>

\* if path.exists() { fs::remove_file(&path)?; }   remove_file refuses a directory.
CleanupFile(st, f, name) ==
    IF st.err \/ ~Exists(st.game[name], st) THEN st
    ELSE IF f = name \/ IsDir(st.game[name], st) THEN Err(st, name)
    ELSE [st EXCEPT !.game[name] = Absent]

\* (variant: whatever occupies the folder name is removed)
CleanupFolderAny(st, f, name) ==
    IF st.err \/ st.game[name].kind = "absent" THEN st
    ELSE IF f = name THEN Err(st, name)
    ELSE [st EXCEPT !.game[name] = Absent]

\* if path.is_symlink() { fs::remove_file(&path)?; }
CleanupFolder(st, f, name) ==
    IF st.err \/ ~IsSymlink(st.game[name]) THEN st
    ELSE IF f = name THEN Err(st, name)
    ELSE [st EXCEPT !.game[name] = Absent]

RECURSIVE CleanupFilesFrom(_, _, _)
CleanupFilesFrom(st, f, i) ==
    IF i > Len(CleanupFiles) THEN st
    ELSE CleanupFilesFrom(CleanupFile(st, f, CleanupFiles[i]), f, i + 1)

RECURSIVE CleanupFoldersFrom(_, _, _)
CleanupFoldersFrom(st, f, i) ==
    IF i > Len(CleanupFolders) THEN st
    ELSE CleanupFoldersFrom(CleanupFolder(st, f, CleanupFolders[i]), f, i + 1)

CleanupPoints == {""} \cup GameFiles \cup GameFolders

\* pub fn cleanup_mods(game_dir)
CleanupMods(p) ==
    /\ pc[p] = "idle"
    /\ UNCHANGED ncalls
    /\ Enter(p, "cleanup", "default", "cleanup", Last(p))
    /\ UNCHANGED <<ixvars, remoteTag, fsvars>>

CleanupStep(p) ==
    /\ pc[p] = "cleanup"
    /\ \E f \in CleanupPoints :
         LET r == CleanupFoldersFrom(CleanupFilesFrom(Ctx, f, 1), f, 1) IN
         /\ gameDir' = r.game
         /\ hist'   = [hist EXCEPT ![p].inj = IF r.at = f THEN f ELSE ""]
         /\ pc'     = [pc EXCEPT ![p] = "idle"]
         /\ result' = [result EXCEPT ![p] = IF r.err THEN "err" ELSE "ok"]
         /\ failed' = [failed EXCEPT ![p] = r.at]
    /\ UNCHANGED <<ixvars, remoteTag, inst, cacheDir, zips, defaultMods, customMods,
                   ncalls, op, cur, modsArg, installed, latest, feed, pre>>

\* ------------------------------------------------- the DXVK version index
\* A Version is {name, version, uri}, a Group is {name, versions}.  The uri
\* of a version is its position in the index file, so that two entries with
\* the same name and version tag are still told apart.
GroupNames  == {"vanilla", "async"}
VersionPool == {[name |-> "vanilla", version |-> "2.3"],
                [name |-> "2.3",     version |-> "2.3.1"],
                [name |-> "Vanilla", version |-> "2.3"]}
Queries     == {"vanilla", "Vanilla", "2.3", "async", "missing"}

RECURSIVE CountVersions(_, _)
CountVersions(gs, i) ==
    IF i > Len(gs) THEN 0 ELSE Len(gs[i].versions) + CountVersions(gs, i + 1)

\* What a call returns: Err(..) ("err"), Ok(None) ("none"), Ok(value) or
\* Ok(Some(value)) ("ok", value = <<the value>>), or no return at all because
\* the thread panicked ("panic").
\* self is <<the version the method was called on>>, <<>> for the functions
\* that take only a name.
NoLookup == [fn |-> "none", self |-> <<>>, name |-> "", loaded |-> TRUE, kind |-> "none",
             value |-> <<>>]
RetErr   == [kind |-> "err",   value |-> <<>>]
RetNone  == [kind |-> "none",  value |-> <<>>]
RetPanic == [kind |-> "panic", value |-> <<>>]
RetOk(v) == [kind |-> "ok",    value |-> <<v>>]

\* (variant: only the name of a version is compared)
VersionMatchesNameOnly(v, name) == v.name = name

\* version.name == name || version.version == name
VersionMatches(v, name) == v.name = name \/ v.version = name

\* group.versions.into_iter().find(..): index of the first match, 0 if none.
RECURSIVE FindVersion(_, _, _)
FindVersion(vs, name, i) ==
    IF i > Len(vs) THEN 0
    ELSE IF VersionMatches(vs[i], name) THEN i
    ELSE FindVersion(vs, name, i + 1)

\* (variant: the versions of a group are not looked at)
AnyVersionNamedNever(vs, name) == FALSE

\* group.versions.iter().any(|version| version.name == name)
AnyVersionNamed(vs, name) == \E i \in 1..Len(vs) : vs[i].name = name

\* Version::find_in, the loop over get_groups(components)? from group i on.
RECURSIVE VersionFindIn(_, _, _)
VersionFindIn(gs, name, i) ==
    IF i > Len(gs) THEN RetNone
    ELSE IF FindVersion(gs[i].versions, name, 1) # 0
    THEN RetOk(gs[i].versions[FindVersion(gs[i].versions, name, 1)])
    ELSE VersionFindIn(gs, name, i + 1)

\* Group::find_in, the loop over get_groups(components)? from group i on.
RECURSIVE GroupFindIn(_, _, _)
GroupFindIn(gs, name, i) ==
    IF i > Len(gs) THEN RetNone
    ELSE IF gs[i].name = name \/ AnyVersionNamed(gs[i].versions, name) THEN RetOk(gs[i])
    ELSE GroupFindIn(gs, name, i + 1)

\* group.versions.iter().any(move |version| version.name == name || version.version == name)
AnyVersionMatches(vs, name) == \E i \in 1..Len(vs) : VersionMatches(vs[i], name)

\* Version::find_group, the loop over get_groups(components)? from group i on.
RECURSIVE VersionFindGroup(_, _, _)
VersionFindGroup(gs, name, i) ==
    IF i > Len(gs) THEN RetNone
    ELSE IF AnyVersionMatches(gs[i].versions, name) THEN RetOk(gs[i])
    ELSE VersionFindGroup(gs, name, i + 1)

\* (variant: the newest entry is taken to be the last one of the first group)
VersionLatestLast(gs) ==
    IF Len(gs) = 0 THEN RetPanic
    ELSE IF Len(gs[1].versions) = 0 THEN RetPanic
    ELSE RetOk(gs[1].versions[Len(gs[1].versions)])

\* Version::latest: Ok(get_groups(components)?[0].versions[0].clone()).
\* Indexing a Vec out of bounds panics.
VersionLatest(gs) ==
    IF Len(gs) = 0 THEN RetPanic
    ELSE IF Len(gs[1].versions) = 0 THEN RetPanic
    ELSE RetOk(gs[1].versions[1])

\* The components index gains a group, or a version in its last group.
AddGroup ==
    /\ lookup = NoLookup
    /\ Len(groups) < MaxGroups
    /\ \E n \in GroupNames : groups' = Append(groups, [name |-> n, versions |-> <<>>])
    /\ UNCHANGED <<lookup, remoteTag, fsvars, procvars>>

AddVersion ==
    /\ lookup = NoLookup
    /\ Len(groups) > 0
    /\ CountVersions(groups, 1) < MaxVersions
    /\ \E v \in VersionPool :
         groups' = [groups EXCEPT ![Len(groups)].versions =
                       Append(@, [name |-> v.name, version |-> v.version,
                                  uri |-> CountVersions(groups, 1) + 1])]
    /\ UNCHANGED <<lookup, remoteTag, fsvars, procvars>>

\* A call into the index: get_groups(components)? either fails, and the call
\* returns that error, or yields the groups of the index.
Call(fn, self, name, ret) ==
    /\ \E loaded \in BOOLEAN :
         lookup' = [fn |-> fn, self |-> self, name |-> name, loaded |-> loaded,
                    kind  |-> IF loaded THEN ret.kind ELSE RetErr.kind,
                    value |-> IF loaded THEN ret.value ELSE RetErr.value]
    /\ UNCHANGED <<groups, remoteTag, fsvars, procvars>>

CallLatest        == Call("latest", <<>>, "", VersionLatest(groups))
CallVersionFindIn ==
    \E q \in Queries : Call("Version::find_in", <<>>, q, VersionFindIn(groups, q, 1))
CallGroupFindIn   ==
    \E q \in Queries : Call("Group::find_in", <<>>, q, GroupFindIn(groups, q, 1))

\* The versions find_group is called on: every version of the index, and
\* versions that are in no group (uri 0).
IndexVersions(gs) == {gs[i].versions[j] : <<i, j>> \in
                         {ij \in (1..Len(gs)) \X (1..MaxVersions) : ij[2] <= Len(gs[ij[1]].versions)}}
Receivers(gs) ==
    IndexVersions(gs)
    \cup {[name |-> v.name, version |-> v.version, uri |-> 0] : v \in VersionPool}

\* self.find_group(components): let name = self.name.as_str(); then the loop.
CallFindGroup ==
    \E v \in Receivers(groups) :
       Call("find_group", <<v>>, v.name, VersionFindGroup(groups, v.name, 1))

InitIndex ==
    /\ groups = <<>>
    /\ lookup = NoLookup

\* ---------------------------------------------------------- specifications
\* Before its first call a process has seen nothing of the file system.
NoSnapshot ==
    [inst |-> [k \in Kinds |-> Gone], cacheDir |-> FALSE,
     zips |-> [z \in Kinds \X Tags |-> "none"],
     defaultMods |-> FALSE, customMods |-> "absent", gameDir |-> EmptyGame,
     sync |-> [inst |-> [k \in Kinds |-> Gone], cacheDir |-> FALSE,
               zips |-> [z \in Kinds \X Tags |-> "none"]],
     prev |-> NoPrev]

InitProcs ==
    /\ ncalls    = 0
    /\ pc        = [p \in Procs |-> "idle"]
    /\ op        = [p \in Procs |-> "none"]
    /\ cur       = [p \in Procs |-> "libs"]
    /\ modsArg   = [p \in Procs |-> "default"]
    /\ installed = [p \in Procs |-> 0]
    /\ latest    = [p \in Procs |-> 0]
    /\ feed      = [p \in Procs |-> NoDoc]
    /\ result    = [p \in Procs |-> "none"]
    /\ failed    = [p \in Procs |-> ""]
    /\ hist      = [p \in Procs |-> NoHist]
    /\ pre       = [p \in Procs |-> NoSnapshot]

InitFresh ==
    /\ inst        = [k \in Kinds |-> Gone]
    /\ cacheDir    = FALSE
    /\ zips        = [z \in Kinds \X Tags |-> "none"]
    /\ defaultMods = FALSE

\* The sync engine on a fresh launcher directory; the game directory is not
\* involved.
Init ==
    /\ remoteTag  = [k \in Kinds |-> 1]
    /\ InitFresh
    /\ customMods = "absent"
    /\ gameDir    = EmptyGame
    /\ InitProcs
    /\ InitIndex

SyncSteps(p) ==
    \/ ReadStep(p)
    \/ FetchStep(p)
    \/ MkCacheStep(p)
    \/ DownloadStep(p)
    \/ RemoveStep(p)
    \/ ExtractStep(p)
    \/ StampStep(p)
    \/ RmZipStep(p)
    \/ DefaultModsStep(p)

Next ==
    \/ EnsureXxmiLibs(1)
    \/ EnsureZzmiPackage(1)
    \/ EnsureAll(1)
    \/ SyncSteps(1)
    \/ Crash(1)
    \/ \E k \in Kinds : RemoteRelease(k)

Spec == Init /\ [][Next]_vars

\* prepare_mods / cleanup_mods on a game directory whose reserved folder
\* names may already be occupied.
\* Game directories the calls start from: empty; one reserved folder name
\* occupied by a file, a real directory or a foreign symlink; all three
\* occupied alike; a stray d3d11.dll; the user's mods kept in UserMods.
Occupants == {File("user"), Dir("user"), Link(<<"foreign">>)}
GameDirs ==
    {EmptyGame}
    \cup {[EmptyGame EXCEPT ![n] = o] : n \in GameFolders, o \in Occupants}
    \cup {[n \in GameNames |-> IF n \in GameFolders THEN o ELSE Absent] : o \in Occupants}
    \cup {[EmptyGame EXCEPT !["d3d11.dll"] = File("user")],
          [EmptyGame EXCEPT !["UserMods"] = Dir("user")]}

\* The feeds do not publish during prepare_mods, so a tag matters here only
\* through the shape of its archive: one tag per shape.
ShapeTags == {t \in Tags : t <= 3}

InitOverlay ==
    /\ remoteTag \in [Kinds -> ShapeTags]
    /\ InitFresh
    /\ customMods = "absent"
    /\ gameDir \in GameDirs
    /\ InitProcs
    /\ InitIndex

NextOverlay ==
    \/ PrepareMods(1)
    \/ SyncSteps(1)
    \/ OverlayStep(1)
    \/ CleanupMods(1)
    \/ CleanupStep(1)

SpecOverlay == InitOverlay /\ [][NextOverlay]_vars

\* Two launcher processes calling ensure_xxmi_libs on the same launcher
\* directory with nothing between them but the file system.
SectionPcs == {"mkcache", "download", "remove", "extract", "stamp", "rmzip"}

SectionSteps(p) ==
    \/ ReadStep(p)
    \/ FetchStep(p)
    \/ MkCacheStep(p)
    \/ DownloadStep(p)
    \/ RemoveStep(p)
    \/ ExtractStep(p)
    \/ StampStep(p)
    \/ RmZipStep(p)

\* Each of the two processes makes its one call of ensure_xxmi_libs.
RaceCall(p) ==
    /\ op[p] = "none"
    /\ EnsureXxmiLibs(p)

NextRace ==
    \/ \E p \in Procs : RaceCall(p)
    \/ \E p \in Procs : SectionSteps(p)
    \/ RemoteRelease("libs")

SpecRace == Init /\ [][NextRace]_vars

\* Lookups in a components index of up to MaxGroups groups.
NextIndex ==
    \/ AddGroup
    \/ AddVersion
    \/ CallLatest
    \/ CallVersionFindIn
    \/ CallGroupFindIn
    \/ CallFindGroup

SpecIndex == Init /\ [][NextIndex]_vars

\* ================================================================ claims
EnsureOps == {"libs", "zzmi", "all", "prepare"}
DirectOps == {"libs", "zzmi"}

\* The install directory d holds every entry of the archive of kind k, tag t.
Complete(d, k, t) == d.exists /\ Entries(k, t) \subseteq d.files

\* ---- C1: version.json of an install directory is written only by a run
\* that has already extracted the archive into that directory successfully:
\* every step that changes the content of version.json to something other
\* than "no file" is the stamp step of a call whose extraction of that
\* package kind has completed, with all archive entries in place.
C1_StampOnlyAfterExtract ==
    [][\A k \in Kinds :
         (inst'[GetDir(k)].stamp # inst[GetDir(k)].stamp /\ inst'[GetDir(k)].stamp # NoStamp)
         => \E p \in Procs :
              /\ pc[p] = "stamp"
              /\ cur[p] = k
              /\ k \in hist[p].extracted
              /\ Complete(inst[GetDir(k)], k, latest[p])]_vars

\* ensure_all has returned Ok after extracting and stamping both packages.
C1_Witness ==
    /\ pc[1] = "idle" /\ op[1] = "all" /\ result[1] = "ok"
    /\ hist[1].stamped = Kinds
    /\ \A k \in Kinds : inst[GetDir(k)].stamp = hist[1].tag[k]

\* ---- C2: (a) a sync that stopped (error or termination) at the extract or
\* the stamp step, i.e. after remove-old and before the stamp was written,
\* leaves an install directory in which read_version finds no version;
\* (b) an ensure call that starts from an install directory without a
\* readable version and succeeds has downloaded, (removed,) extracted and
\* stamped, and ends with the complete extraction stamped with the tag the
\* feed returned.
C2_CrashRecovery ==
    \A p \in Procs : op[p] \in EnsureOps =>
      /\ (pc[p] = "idle" /\ result[p] \in {"err", "crash"}
            /\ (failed[p] = "extract" \/ (failed[p] = "stamp" /\ result[p] = "crash")))
         => inst[GetDir(cur[p])].stamp = NoStamp
      /\ \A k \in Kinds :
           (/\ pc[p] = "idle" /\ result[p] = "ok"
            /\ hist[p].tag[k] # 0
            /\ ReadVersion(pre[p].inst[GetDir(k)]) = 0)
           => /\ k \in hist[p].downloaded
              /\ k \in hist[p].extracted
              /\ k \in hist[p].stamped
              /\ (pre[p].inst[GetDir(k)].exists => k \in hist[p].removed)
              /\ inst[GetDir(k)].stamp = hist[p].tag[k]
              /\ Complete(inst[GetDir(k)], k, hist[p].tag[k])

\* A later call found the partial, unstamped directory a stopped extraction
\* left behind and re-synced it.
C2_Witness ==
    /\ pc[1] = "idle" /\ op[1] = "libs" /\ result[1] = "ok" /\ ncalls >= 2
    /\ pre[1].inst[GetDir("libs")].exists
    /\ pre[1].inst[GetDir("libs")].stamp = NoStamp
    /\ "libs" \in hist[1].removed
    /\ inst[GetDir("libs")].stamp = remoteTag["libs"]

\* ---- C3: when the version read from the local stamp equals the tag the
\* feed returns, the ensure call downloads nothing for that kind and leaves
\* its install directory as it was; a direct ensure call then returns Ok with
\* install and cache directories unchanged.  A direct ensure call that
\* returned Ok leaves the stamp equal to the tag it fetched, so a second call
\* with the same remote tag is such a call.
C3_CurrentIsNoOp ==
    \A p \in Procs : op[p] \in EnsureOps =>
      /\ \A k \in Kinds :
           (hist[p].tag[k] # 0 /\ ReadVersion(pre[p].inst[GetDir(k)]) = hist[p].tag[k])
           => /\ k \notin hist[p].downloaded
              /\ inst[GetDir(k)] = pre[p].inst[GetDir(k)]
              /\ (op[p] \in DirectOps =>
                    /\ pc[p] = "idle" /\ result[p] = "ok"
                    /\ inst = pre[p].inst
                    /\ zips = pre[p].zips
                    /\ cacheDir = pre[p].cacheDir)
      /\ (op[p] \in DirectOps /\ pc[p] = "idle" /\ result[p] = "ok")
           => ReadVersion(inst[GetDir(cur[p])]) = hist[p].tag[cur[p]]

\* A second call of ensure_xxmi_libs found the stamp current.
C3_Witness ==
    /\ pc[1] = "idle" /\ op[1] = "libs" /\ result[1] = "ok" /\ ncalls >= 2
    /\ hist[1].current = {"libs"}
    /\ inst[GetDir("libs")].stamp = remoteTag["libs"]
    /\ Complete(inst[GetDir("libs")], "libs", remoteTag["libs"])

\* ---- C4: a call that stopped because download_file failed returned an
\* error and left the install directory of the package being synced exactly
\* as the call found it; and an install directory differs from what the call
\* found only if the call has completed the download for that kind.
C4_DownloadBeforeRemove ==
    \A p \in Procs : op[p] \in EnsureOps =>
      /\ (pc[p] = "idle" /\ failed[p] = "download" /\ result[p] # "crash")
         => /\ result[p] = "err"
            /\ inst[GetDir(cur[p])] = pre[p].inst[GetDir(cur[p])]
      /\ \A k \in Kinds :
           inst[GetDir(k)] # pre[p].inst[GetDir(k)] => k \in hist[p].downloaded

\* A failed download with a stamped install directory still in place.
C4_Witness ==
    /\ pc[1] = "idle" /\ op[1] = "libs" /\ result[1] = "err" /\ failed[1] = "download"
    /\ pre[1].inst[GetDir("libs")].stamp \in Tags
    /\ pre[1].inst[GetDir("libs")].stamp # remoteTag["libs"]
    /\ inst[GetDir("libs")].stamp = pre[1].inst[GetDir("libs")].stamp
    /\ Complete(inst[GetDir("libs")], "libs", inst[GetDir("libs")].stamp)

\* ---- C5: when the release document has no tag_name, no assets array or no
\* matching asset, the ensure call has returned an error at the fetch and the
\* sync directories are as they were when that ensure call began (stamp,
\* install directories, cache directory and cached archives).
BadFeed(doc) == doc.got = "json" /\ (doc.tag = 0 \/ doc.assets \in {"none", "nomatch"})

C5_BadFeedTouchesNothing ==
    \A p \in Procs : (op[p] \in EnsureOps /\ BadFeed(feed[p])) =>
      /\ pc[p] = "idle" /\ result[p] = "err" /\ failed[p] = "fetch"
      /\ inst     = pre[p].sync.inst
      /\ cacheDir = pre[p].sync.cacheDir
      /\ zips     = pre[p].sync.zips
      /\ (op[p] \in DirectOps =>
            /\ inst = pre[p].inst /\ cacheDir = pre[p].cacheDir /\ zips = pre[p].zips)

\* The feed lost its matching asset while an older version is installed.
C5_Witness ==
    /\ pc[1] = "idle" /\ op[1] = "libs" /\ result[1] = "err"
    /\ feed[1].assets = "nomatch" /\ feed[1].tag # 0
    /\ inst[GetDir("libs")].stamp \in Tags
    /\ inst[GetDir("libs")].stamp # feed[1].tag

\* ---- C6: after ensure_xxmi_libs has succeeded inside ensure_all, the libs
\* install directory stays exactly as it was when ensure_zzmi_package was
\* entered, whatever happens to the ZZMI sync (failure at any step included):
\* its stamp is the tag the libs feed returned and its
\* contents are the complete libs archive of that tag; and the ZZMI stamp
\* holds a new tag only when the ZZMI sync itself wrote it, as the tag the
\* ZZMI feed returned.
C6_NoRollbackOfLibs ==
    \A p \in Procs : (op[p] = "all" /\ cur[p] = "zzmi") =>
      /\ (pc[p] # "read" /\ failed[p] # "read")
           => /\ inst[GetDir("libs")] = pre[p].sync.inst[GetDir("libs")]
              /\ (/\ inst[GetDir("zzmi")].stamp \in Tags
                  /\ inst[GetDir("zzmi")].stamp # pre[p].sync.inst[GetDir("zzmi")].stamp)
                 => /\ "zzmi" \in hist[p].stamped
                    /\ inst[GetDir("zzmi")].stamp = hist[p].tag["zzmi"]
      /\ inst[GetDir("libs")].stamp = hist[p].tag["libs"]
      /\ Complete(inst[GetDir("libs")], "libs", hist[p].tag["libs"])

\* ensure_all failed in the extraction of the ZZMI package after it had
\* installed the libs in the same call.
C6_Witness ==
    /\ pc[1] = "idle" /\ op[1] = "all" /\ cur[1] = "zzmi"
    /\ result[1] = "err" /\ failed[1] = "extract"
    /\ "libs" \in hist[1].stamped
    /\ inst[GetDir("libs")].stamp = hist[1].tag["libs"]
    /\ inst[GetDir("zzmi")].stamp = NoStamp

\* ---- C7: cleanup_mods leaves a real directory found at Core, ShaderFixes
\* or Mods exactly as it was, and changes the entry at one of these names
\* only by removing it when the entry itself is a symbolic link.
C7_CleanupKeepsRealDirs ==
    \A p \in Procs : (op[p] = "cleanup" /\ pc[p] = "idle") =>
      \A n \in GameFolders :
        /\ pre[p].gameDir[n].kind = "dir" => gameDir[n] = pre[p].gameDir[n]
        /\ gameDir[n] # pre[p].gameDir[n]
             => (IsSymlink(pre[p].gameDir[n]) /\ gameDir[n] = Absent)

\* cleanup_mods returned Ok with a real directory at Core still in place.
C7_Witness ==
    /\ op[1] = "cleanup" /\ pc[1] = "idle" /\ result[1] = "ok"
    /\ pre[1].gameDir["Core"] = Dir("user")
    /\ gameDir["Core"] = Dir("user")

\* A successful cleanup_mods that directly follows a successful prepare_mods
\* which had found the game directory empty.
RoundTrip(p) ==
    /\ op[p] = "cleanup" /\ pc[p] = "idle" /\ result[p] = "ok"
    /\ pre[p].prev.op = "prepare" /\ pre[p].prev.result = "ok" /\ pre[p].prev.empty

\* ---- C8 (as stated): after prepare_mods and cleanup_mods both succeeded on
\* a game directory that was empty, the game directory is empty again.
C8_RoundTripEmpty ==
    \A p \in Procs : RoundTrip(p) => gameDir = EmptyGame

\* ---- C8 (amended): after such a round trip every file and symlink that
\* prepare_mods placed is gone and no symlink, dangling or not, remains; the
\* game directory is empty again when mods_folder lies outside it, and holds
\* only the mods folder prepare_mods created when mods_folder lies inside it.
C8_RoundTripArtifacts ==
    \A p \in Procs : RoundTrip(p) =>
      /\ \A n \in GameFiles \cup GameFolders : gameDir[n] = Absent
      /\ \A n \in GameNames : ~IsSymlink(gameDir[n])
      /\ pre[p].prev.modsArg \in {"default", "custom"} => gameDir = EmptyGame
      /\ pre[p].prev.modsArg \notin {"default", "custom"}
           => gameDir = [EmptyGame EXCEPT !["UserMods"] = Dir("new")]

\* The round trip removed the copied files and the three symlinks.
C8_Witness ==
    /\ RoundTrip(1)
    /\ pre[1].gameDir["dxgi.dll"] = File("pkg")
    /\ pre[1].gameDir["d3dx.ini"] = File("pkg")
    /\ \A n \in GameFolders : IsSymlink(pre[1].gameDir[n])
    /\ gameDir = EmptyGame

\* No d3d11.dll anywhere below the XXMI libs install directory.
NoD3d11 == \A dir \in {"", "sub"} : <<dir, "d3d11.dll">> \notin inst[GetDir("libs")].files

\* ---- C9: when prepare_mods ends with no d3d11.dll anywhere under the XXMI
\* libs install directory, it has returned an error and the game directory
\* is exactly as it was when prepare_mods was called.
C9_MissingD3d11TouchesNothing ==
    \A p \in Procs : (op[p] = "prepare" /\ pc[p] = "idle" /\ NoD3d11) =>
      /\ result[p] = "err"
      /\ gameDir = pre[p].gameDir

\* Both packages were synced, the libs archive has no d3d11.dll, and
\* prepare_mods bailed out on an occupied game directory.
C9_Witness ==
    /\ op[1] = "prepare" /\ pc[1] = "idle" /\ result[1] = "err"
    /\ failed[1] = "find:d3d11.dll"
    /\ hist[1].stamped = Kinds
    /\ inst[GetDir("libs")].files # {}
    /\ gameDir["Mods"] = Dir("user")

\* ---- C10 (as stated): whatever occupies Core / ShaderFixes (when the source
\* folder exists) and Mods - file, symlink or directory - prepare_mods does
\* not fail because of it: when both required artifacts are found and the
\* operating system refuses nothing, prepare_mods returns Ok and each of
\* these paths is a symlink to its source folder (Mods: to mods_folder).
C10_ReplacesAnyEntry ==
    \A p \in Procs :
      (/\ op[p] = "prepare" /\ pc[p] = "idle"
       /\ failed[p] \in PreparePoints
       /\ hist[p].inj = ""
       /\ modsArg[p] # "gameMods")
      => /\ result[p] = "ok"
         /\ gameDir["Mods"] = Link(<<"mods", modsArg[p]>>)
         /\ \A n \in {"Core", "ShaderFixes"} :
              LET cdir == FindFileRecursive(inst[GetDir("zzmi")], "d3dx.ini")[1] IN
              <<cdir, n>> \in inst[GetDir("zzmi")].files
                => gameDir[n] = Link(<<"pkg", cdir, n>>)

\* ---- C11 (as stated): cleanup_mods is best-effort per entry: when the
\* removal of one entry fails, every other entry of its lists that could be
\* removed (a file under one of the file names, a symlink under one of the
\* folder names) has still been removed when cleanup_mods returns.
C11_CleanupBestEffort ==
    \A p \in Procs : (op[p] = "cleanup" /\ pc[p] = "idle" /\ result[p] = "err") =>
      /\ \A n \in GameFiles \ {failed[p]} :
           pre[p].gameDir[n].kind = "file" => gameDir[n] = Absent
      /\ \A n \in GameFolders \ {failed[p]} :
           IsSymlink(pre[p].gameDir[n]) => gameDir[n] = Absent

\* The names prepare_mods can place in the game directory: the destinations
\* of its four fs::copy calls and of its three symlink calls.
PlacedNames == {"dxgi.dll", "d3dcompiler_47.dll", "nvapi64.dll", "d3dx.ini",
                "Core", "ShaderFixes", "Mods"}

\* ---- C12 (as stated): cleanup_mods removes from the game directory only
\* entries under names that prepare_mods can place there.
C12_CleanupOnlyPlacedNames ==
    \A p \in Procs : (op[p] = "cleanup" /\ pc[p] = "idle") =>
      \A n \in GameNames : gameDir[n] # pre[p].gameDir[n] => n \in PlacedNames

\* The placement steps of prepare_mods in program order, by destination name,
\* and the position of each fallible operation in that order.
PlaceOrder == <<"dxgi.dll", "d3dcompiler_47.dll", "nvapi64.dll", "d3dx.ini",
                "Core", "ShaderFixes", "Mods">>

PointIndex(pt) ==
    CASE pt = "cp:dxgi.dll"                                -> 1
      [] pt = "cp:d3dcompiler_47.dll"                      -> 2
      [] pt = "cp:nvapi64.dll"                             -> 3
      [] pt = "cp:d3dx.ini"                                -> 4
      [] pt \in {"rm:Core", "ln:Core"}                     -> 5
      [] pt \in {"rm:ShaderFixes", "ln:ShaderFixes"}       -> 6
      [] OTHER                                             -> 7

\* ---- C13: when a copy, removal or symlink inside prepare_mods fails, the
\* call returns an error; the destination of the failing step holds no new
\* file or link (it is as found, or emptied by the removal that came before
\* a failing symlink / create_dir_all), every destination that comes later in
\* program order is exactly as prepare_mods found it, and no mods folder has
\* been created unless the failing step is the last symlink.
C13_AbortAtFailingStep ==
    \A p \in Procs :
      (op[p] = "prepare" /\ pc[p] = "idle" /\ failed[p] \in PreparePoints \ {""}) =>
        LET i    == PointIndex(failed[p])
            here == PlaceOrder[i]
        IN
        /\ result[p] = "err"
        /\ \A j \in (i + 1)..Len(PlaceOrder) :
             gameDir[PlaceOrder[j]] = pre[p].gameDir[PlaceOrder[j]]
        /\ IF failed[p] = "ln:Mods"
           THEN gameDir[here] \in {pre[p].gameDir[here], Absent, Dir("new")}
           ELSE IF failed[p] \in {"ln:Core", "ln:ShaderFixes", "mk:mods"}
           THEN gameDir[here] \in {pre[p].gameDir[here], Absent}
           ELSE gameDir[here] = pre[p].gameDir[here]
        /\ failed[p] # "ln:Mods" =>
             /\ gameDir["UserMods"] = pre[p].gameDir["UserMods"]
             /\ customMods = pre[p].customMods

\* The symlink for Core was refused after the real directory at Core had been
\* removed: the DLLs and d3dx.ini are placed, ShaderFixes and Mods untouched.
C13_Witness ==
    /\ op[1] = "prepare" /\ pc[1] = "idle" /\ result[1] = "err"
    /\ failed[1] = "ln:Core" /\ hist[1].inj = "ln:Core"
    /\ pre[1].gameDir["Core"] = Dir("user") /\ gameDir["Core"] = Absent
    /\ gameDir["dxgi.dll"] = File("pkg") /\ gameDir["d3dx.ini"] = File("pkg")
    /\ gameDir["ShaderFixes"] = Dir("user") /\ gameDir["Mods"] = Dir("user")

\* The artifacts prepare_mods copies only when find_file_recursive finds them.
OptionalNames == {"d3dcompiler_47.dll", "nvapi64.dll"}

\* ---- C14: when prepare_mods has run its placement steps and an optional
\* artifact is absent from the XXMI libs install directory, the call did not
\* fail at that artifact and the game directory entry of that name is as it
\* was found; a successful call has placed everything else (dxgi.dll,
\* d3dx.ini, the optional artifact that is present, the Mods symlink); and
\* the call does succeed when d3dx.ini is found, nothing is refused, no
\* regular file occupies a folder name and mods_folder is not game_dir/Mods.
C14_OptionalSkipped ==
    \A p \in Procs : (op[p] = "prepare" /\ pc[p] = "idle" /\ failed[p] \in PreparePoints) =>
      \A n \in OptionalNames :
        FindFileRecursive(inst[GetDir("libs")], n) = NotFound =>
          /\ (n = "d3dcompiler_47.dll" => failed[p] # "cp:d3dcompiler_47.dll")
          /\ (n = "nvapi64.dll" => failed[p] # "cp:nvapi64.dll")
          /\ gameDir[n] = pre[p].gameDir[n]
          /\ result[p] = "ok" =>
               /\ gameDir["dxgi.dll"] = File("pkg")
               /\ gameDir["d3dx.ini"] = File("pkg")
               /\ gameDir["Mods"] = Link(<<"mods", modsArg[p]>>)
               /\ \A o \in OptionalNames :
                    FindFileRecursive(inst[GetDir("libs")], o) # NotFound
                      => gameDir[o] = File("pkg")
          /\ (/\ hist[p].inj = ""
              /\ modsArg[p] # "gameMods"
              /\ \A g \in GameFolders : pre[p].gameDir[g].kind # "file")
             => result[p] = "ok"

\* prepare_mods succeeded with a libs package that has no d3dcompiler_47.dll.
C14_Witness ==
    /\ op[1] = "prepare" /\ pc[1] = "idle" /\ result[1] = "ok"
    /\ FindFileRecursive(inst[GetDir("libs")], "d3dcompiler_47.dll") = NotFound
    /\ gameDir["d3dcompiler_47.dll"] = Absent
    /\ gameDir["dxgi.dll"] = File("pkg")
    /\ gameDir["nvapi64.dll"] = File("pkg")
    /\ IsSymlink(gameDir["Mods"])

\* All versions of the index in file order: groups in index order, versions
\* in group order.
RECURSIVE Flatten(_, _)
Flatten(gs, i) == IF i > Len(gs) THEN <<>> ELSE gs[i].versions \o Flatten(gs, i + 1)

\* Positions in the flattened index whose name or version tag is exactly q.
Hits(gs, q) == {i \in 1..Len(Flatten(gs, 1)) :
                  Flatten(gs, 1)[i].name = q \/ Flatten(gs, 1)[i].version = q}

\* ---- C15: Version::find_in returns Err only when the index could not be
\* loaded; otherwise it returns Some(v) with v the first version in file
\* order whose name or version tag is exactly the query, and Ok(None) when no
\* version has that name or tag.
C15_VersionFindInFirstMatch ==
    lookup.fn = "Version::find_in" =>
      IF ~lookup.loaded THEN lookup.kind = "err"
      ELSE IF Hits(groups, lookup.name) = {} THEN lookup.kind = "none"
      ELSE /\ lookup.kind = "ok"
           /\ \E i \in Hits(groups, lookup.name) :
                /\ \A j \in Hits(groups, lookup.name) : i <= j
                /\ lookup.value = <<Flatten(groups, 1)[i]>>

\* "2.3" is the version tag of the first entry and the name of a later one
\* in another group: the first entry is returned.
C15_Witness ==
    /\ lookup.fn = "Version::find_in" /\ lookup.name = "2.3" /\ lookup.kind = "ok"
    /\ Len(groups) = 2
    /\ Len(groups[1].versions) = 1 /\ Len(groups[2].versions) = 1
    /\ groups[1].versions[1].version = "2.3"
    /\ groups[2].versions[1].name = "2.3"
    /\ lookup.value = <<groups[1].versions[1]>>

\* Positions of the groups whose own name is exactly q or that contain a
\* version whose name is exactly q.
GroupHits(gs, q) == {i \in 1..Len(gs) :
                       \/ gs[i].name = q
                       \/ \E j \in 1..Len(gs[i].versions) : gs[i].versions[j].name = q}

\* ---- C16: Group::find_in returns Err only when the index could not be
\* loaded; otherwise it returns Some(g) with g the first group in index order
\* whose own name is the query or that contains a version named by the query
\* (whatever the group's own name is), and Ok(None) when there is no such
\* group.
C16_GroupFindInFirstMatch ==
    lookup.fn = "Group::find_in" =>
      IF ~lookup.loaded THEN lookup.kind = "err"
      ELSE IF GroupHits(groups, lookup.name) = {} THEN lookup.kind = "none"
      ELSE /\ lookup.kind = "ok"
           /\ \E i \in GroupHits(groups, lookup.name) :
                /\ \A j \in GroupHits(groups, lookup.name) : i <= j
                /\ lookup.value = <<groups[i]>>

\* The query names a version of the first group, whose own name differs; a
\* later group carries the query as its own name.  The first group is returned.
C16_Witness ==
    /\ lookup.fn = "Group::find_in" /\ lookup.name = "vanilla" /\ lookup.kind = "ok"
    /\ Len(groups) = 2
    /\ groups[1].name = "async" /\ groups[2].name = "vanilla"
    /\ Len(groups[1].versions) = 1 /\ groups[1].versions[1].name = "vanilla"
    /\ lookup.value = <<groups[1]>>

\* ---- C17: for a loaded index with at least one group whose first group has
\* at least one version, Version::latest returns Ok with exactly the first
\* version of the first group (name, version tag and uri as in the index).
C17_LatestIsFirstOfFirst ==
    (/\ lookup.fn = "latest" /\ lookup.loaded
     /\ Len(groups) >= 1 /\ Len(groups[1].versions) >= 1)
    => /\ lookup.kind = "ok"
       /\ lookup.value = <<groups[1].versions[1]>>

\* The first group holds two different versions; the first one is returned.
C17_Witness ==
    /\ lookup.fn = "latest" /\ lookup.kind = "ok"
    /\ Len(groups) >= 1 /\ Len(groups[1].versions) = 2
    /\ groups[1].versions[1].name # groups[1].versions[2].name
    /\ lookup.value = <<groups[1].versions[1]>>

\* ---- C18 (as stated): when the loaded index has no groups, or its first
\* group has no versions, Version::latest returns an error value to the
\* caller.
C18_LatestEmptyIsError ==
    (/\ lookup.fn = "latest" /\ lookup.loaded
     /\ (Len(groups) = 0 \/ Len(groups[1].versions) = 0))
    => lookup.kind = "err"

\* ---- C19: nothing in the sync pipeline makes one process wait for another:
\* whatever the other process is doing, a process that has not made its
\* call yet can enter ensure_xxmi_libs and a process inside the ensure call
\* can take its next step.  (That both processes can be inside the download / remove-old /
\* extract / stamp section together, with a stamp over contents that are not
\* the complete extraction of the stamped archive, is the state C19_Witness
\* describes.)
C19_NoMutualExclusion ==
    \A q \in Procs :
      /\ op[q] = "none" => ENABLED RaceCall(q)
      /\ pc[q] # "idle" => ENABLED SectionSteps(q)

\* Both processes are inside the section for the libs package and the
\* install directory carries a stamp whose archive is not completely there.
C19_Witness ==
    /\ pc[1] \in SectionPcs /\ pc[2] \in SectionPcs
    /\ cur[1] = "libs" /\ cur[2] = "libs"
    /\ inst[GetDir("libs")].stamp \in Tags
    /\ ~Complete(inst[GetDir("libs")], "libs", inst[GetDir("libs")].stamp)

\* ---- C20 (as stated): with ensure calls run one at a time, in every
\* reachable state (those left by an error or a crash included) an install
\* directory whose version.json holds tag t holds every entry of the archive
\* of tag t.
C20_StampImpliesComplete ==
    \A k \in Kinds :
      inst[GetDir(k)].stamp \in Tags
        => Complete(inst[GetDir(k)], k, inst[GetDir(k)].stamp)

\* No d3dx.ini anywhere below the ZZMI package install directory.
NoD3dxIni == FindFileRecursive(inst[GetDir("zzmi")], "d3dx.ini") = NotFound

\* ---- C21 (as stated): when prepare_mods ends with no d3dx.ini anywhere
\* under the ZZMI package install directory, it has returned an error and the
\* game directory is exactly as it was when prepare_mods was called.
C21_MissingIniTouchesNothing ==
    \A p \in Procs : (op[p] = "prepare" /\ pc[p] = "idle" /\ NoD3dxIni) =>
      /\ result[p] = "err"
      /\ gameDir = pre[p].gameDir

\* The cached archives of the ZZMI package.
ZzmiZips(z) == [t \in Tags |-> z[ZipPath("zzmi", t)]]

\* ---- C22: inside ensure_all the ZZMI package sync is running or over only
\* when the libs sync has returned Ok in the same call (the libs stamp was
\* found current or was written, and equals the tag the libs feed returned);
\* and as long as the call is in, or has stopped in, the libs sync, it has
\* not returned Ok, it has not contacted the ZZMI feed, and the ZZMI install
\* directory with its stamp, the cached ZZMI archives and the default Mods
\* directory are as the call found them.
C22_LibsThenZzmi ==
    \A p \in Procs : op[p] \in {"all", "prepare"} =>
      /\ cur[p] = "zzmi" =>
           /\ "libs" \in hist[p].current \cup hist[p].stamped
           /\ hist[p].tag["libs"] # 0
           /\ inst[GetDir("libs")].stamp = hist[p].tag["libs"]
      /\ cur[p] = "libs" =>
           /\ result[p] # "ok"
           /\ hist[p].tag["zzmi"] = 0
           /\ inst[GetDir("zzmi")] = pre[p].inst[GetDir("zzmi")]
           /\ ZzmiZips(zips) = ZzmiZips(pre[p].zips)
           /\ defaultMods = pre[p].defaultMods

\* ensure_all returned the error of the libs download; the ZZMI package
\* installed by an earlier call and the missing default Mods directory are
\* as they were.
C22_Witness ==
    /\ op[1] = "all" /\ pc[1] = "idle" /\ result[1] = "err"
    /\ cur[1] = "libs" /\ failed[1] = "download"
    /\ pre[1].inst[GetDir("zzmi")].stamp \in Tags
    /\ inst[GetDir("zzmi")] = pre[1].inst[GetDir("zzmi")]
    /\ ~defaultMods

\* The steps of ensure_all at which a call can stop.
SyncPoints == {"read", "fetch", "mkcache", "download", "remove", "extract", "stamp",
               "rmzip", "defmods"}

\* ---- C23: prepare_mods leaves the game directory as it found it until
\* ensure_all has returned; when the call stopped inside ensure_all it
\* returned an error with the game directory as found; and whenever the game
\* directory differs from what the call found, both install directories are
\* stamped with the tags their feeds returned in this call and ensure_all has
\* gone through to the default Mods folder.
C23_OverlayAfterSync ==
    \A p \in Procs : op[p] = "prepare" =>
      /\ pc[p] # "idle" => gameDir = pre[p].gameDir
      /\ (pc[p] = "idle" /\ failed[p] \in SyncPoints) =>
           /\ result[p] = "err"
           /\ gameDir = pre[p].gameDir
      /\ gameDir # pre[p].gameDir =>
           /\ \A k \in Kinds :
                /\ hist[p].tag[k] # 0
                /\ k \in hist[p].current \cup hist[p].stamped
                /\ inst[GetDir(k)].stamp = hist[p].tag[k]
           /\ defaultMods

\* The libs are installed and stamped, the extraction of the ZZMI package
\* failed: prepare_mods returned the error and an occupied game directory is
\* as it was.
C23_Witness ==
    /\ op[1] = "prepare" /\ pc[1] = "idle" /\ result[1] = "err"
    /\ cur[1] = "zzmi" /\ failed[1] = "extract"
    /\ "libs" \in hist[1].stamped
    /\ FindFileRecursive(inst[GetDir("libs")], "d3d11.dll") # NotFound
    /\ gameDir["Core"] = Dir("user")
    /\ gameDir = pre[1].gameDir

\* ---- C24: when prepare_mods has gone through its overlay part, a
\* mods_folder that was a directory before the call is still that directory
\* with its content, whether it is <game_dir>/Mods itself or another folder
\* inside the game directory.
C24_ModsFolderKept ==
    \A p \in Procs : (op[p] = "prepare" /\ pc[p] = "idle" /\ failed[p] \notin SyncPoints) =>
      /\ (modsArg[p] = "gameMods" /\ pre[p].gameDir["Mods"].kind = "dir") =>
           gameDir["Mods"] = pre[p].gameDir["Mods"]
      /\ (modsArg[p] = "gameSub" /\ pre[p].gameDir["UserMods"].kind = "dir") =>
           gameDir["UserMods"] = pre[p].gameDir["UserMods"]

\* ---- C25: when find_group was called on a version that is in some group of
\* the index and the index loaded, it returned a group, and that group holds
\* a version with the name and the version tag of the one it was called on
\* (the least that "contains v itself" asks for: two entries of the index
\* that differ only in their position count as the same version here).
C25_FindGroupReturnsOwnGroup ==
    (/\ lookup.fn = "find_group" /\ lookup.loaded
     /\ lookup.self[1] \in IndexVersions(groups))
    => /\ lookup.kind = "ok"
       /\ \E j \in 1..Len(lookup.value[1].versions) :
            /\ lookup.value[1].versions[j].name = lookup.self[1].name
            /\ lookup.value[1].versions[j].version = lookup.self[1].version

====
